---- MODULE Spec2Model ----
(***************************************************************************)
(* Model of the feature-to-decision chain of the traffic anomaly pipeline: *)
(*   ml/anomaly_detector.py   run_anomaly_detection                        *)
(*   ml/explainability.py     generate_explanations / explain_row          *)
(*   ml/ml_engine.py          compute_risk_score, assign_severity_and_     *)
(*                            action, run_engine                           *)
(*   rules/rule_engine.py     calculate_risk, assign_severity,             *)
(*                            recommend_rule, the script itself            *)
(*   features/feature_engineering.py   burst_score                         *)
(*                                                                         *)
(* Representation.  A DataFrame / CSV file is a record                     *)
(*   [cols |-> sequence of column names, rows |-> sequence of rows],       *)
(* a row being a function from column name to cell.  Numeric cells are     *)
(* integers in a fixed unit per column:                                    *)
(*   req_per_min, avg_resp_time, avg_req_size, unique_endpoints : units    *)
(*   error_rate                                    : hundredths            *)
(*   burst_score                                   : thousandths           *)
(*   risk_score (composite), req_rate_deviation    : hundredths            *)
(*   risk_score (weighted-cap)                     : units                 *)
(* Quotients are computed exactly as rationals and rounded only where the  *)
(* code rounds or stores; the IEEE not-a-number and infinity values that   *)
(* pandas produces for x/0 are the cells NaN and Inf.  Text is a sequence  *)
(* of one-character strings.  A batch has at least one record.             *)
(*                                                                         *)
(* handed, written, stages, first_run and last_writer record what the runs *)
(* have done (the argument of the last stage call, the files written, the  *)
(* stages completed, the outcome of the first run, the program that wrote  *)
(* the final dataset last); the code does not read them.                   *)
(*                                                                         *)
(* Spec is run_engine alone, SpecBoth is run_engine beside the script      *)
(* rule_engine.py, SpecFn is the scoring functions on bounded inputs.      *)
(***************************************************************************)
EXTENDS Integers, Sequences, FiniteSets, TLC

VARIABLES
    features_csv,              \* data/processed/features.csv
    model_pkl,                 \* ml/models/isolation_forest.pkl
    anomaly_results_csv,       \* data/processed/anomaly_results.csv
    anomaly_explanations_csv,  \* data/processed/anomaly_explanations.csv
    rule_recommendations_csv,  \* data/processed/rule_recommendations.csv
    pc,                        \* position of run_engine
    heap,                      \* the DataFrame objects of the running process
    df,                        \* run_engine's local df: a reference into heap
    handed,                    \* the last stage call: argument reference and its value at the call
    model_input,               \* the matrix X last passed to the model's scoring functions
    error,                     \* the exception that aborted the run, or NoError
    written,                   \* the files written by the current run, in order
    stages,                    \* the stages completed by the current run, in order
    runs,                      \* number of runs of run_engine started
    first_run,                 \* the files as the first completed run left them
    last_writer,               \* the program that wrote rule_recommendations.csv last
    rule_error,                \* the exception that ended the last run of rule_engine.py
    fn                         \* the scoring functions on bounded inputs: last call and result

vars == <<features_csv, model_pkl, anomaly_results_csv, anomaly_explanations_csv,
          rule_recommendations_csv, pc, heap, df, handed, model_input, error,
          written, stages, runs, first_run, last_writer, rule_error, fn>>

-----------------------------------------------------------------------------
(* Bounds of the model *)

\* largest number of (ip, time window) groups in a batch
MaxRows == 2

\* number of consecutive runs of run_engine
MaxRuns == 2

-----------------------------------------------------------------------------
(* Values *)

\* A float that may be non-finite: Num(v) holds the integer v (in the column's unit)
Num(v) == [k |-> "num", v |-> v]
NaN == [k |-> "nan", v |-> 0]
Inf == [k |-> "inf", v |-> 0]
IsNum(x) == x.k = "num"

\* A file that does not exist, and a file holding a frame
NoFile == [exists |-> FALSE, cols |-> <<>>, rows |-> <<>>]
NoError == [type |-> "None", msg |-> "", args |-> <<>>]
NoInput == [called |-> FALSE, cols |-> <<>>, rows |-> <<>>]
NoFrame == [cols |-> <<>>, rows |-> <<>>]
NoCall == [op |-> "none", done |-> FALSE, a |-> NaN, b |-> NaN, ra |-> "", rb |-> "",
           row |-> <<0, 0, 0>>, out |-> 0,
           frame |-> NoFrame, composite |-> NoFrame, weighted |-> NoFrame]
NoHandoff == [ref |-> 0, val |-> [cols |-> <<>>, rows |-> <<>>]]

RECURSIVE SumSeq(_)
SumSeq(s) == IF s = <<>> THEN 0 ELSE Head(s) + SumSeq(Tail(s))

RECURSIVE MaxSeq(_)
MaxSeq(s) == IF Len(s) = 1 THEN Head(s)
             ELSE LET m == MaxSeq(Tail(s)) IN IF Head(s) > m THEN Head(s) ELSE m

\* round-half-to-even of the rational num/den (num >= 0, den > 0): numpy's round
RoundHalfEven(num, den) ==
    LET q == num \div den
        r == num % den
    IN  IF 2 * r > den THEN q + 1
        ELSE IF 2 * r < den THEN q
        ELSE IF q % 2 = 0 THEN q ELSE q + 1

-----------------------------------------------------------------------------
(* Text: sequences of one-character strings *)

NORMAL_EXPLANATION ==
    <<"T", "r", "a", "f", "f", "i", "c", " ", "b", "e", "h", "a", "v", "i", "o", "r", " ", "w", "i", "t", "h", "i", "n", " ", "n", "o", "r", "m", "a", "l", " ", "b", "a", "s", "e", "l", "i", "n", "e">>

\* "Request rate exceeded baseline by ", followed by the deviation and the multiplication sign
RATE_PREFIX ==
    <<"R", "e", "q", "u", "e", "s", "t", " ", "r", "a", "t", "e", " ", "e", "x", "c", "e", "e", "d", "e", "d", " ", "b", "a", "s", "e", "l", "i", "n", "e", " ", "b", "y", " ">>

\* the one character U+00D7 that ends the rate reason
TIMES_SIGN == <<"U+00D7">>

ERROR_REASON ==
    <<"U", "n", "u", "s", "u", "a", "l", "l", "y", " ", "h", "i", "g", "h", " ", "e", "r", "r", "o", "r", " ", "r", "a", "t", "e", " ", "o", "b", "s", "e", "r", "v", "e", "d">>

LATENCY_REASON ==
    <<"R", "e", "s", "p", "o", "n", "s", "e", " ", "t", "i", "m", "e", " ", "s", "i", "g", "n", "i", "f", "i", "c", "a", "n", "t", "l", "y", " ", "h", "i", "g", "h", "e", "r", " ", "t", "h", "a", "n", " ", "b", "a", "s", "e", "l", "i", "n", "e">>

PAYLOAD_REASON ==
    <<"A", "b", "n", "o", "r", "m", "a", "l", "l", "y", " ", "l", "a", "r", "g", "e", " ", "r", "e", "q", "u", "e", "s", "t", " ", "p", "a", "y", "l", "o", "a", "d", "s">>

ENDPOINT_REASON ==
    <<"A", "c", "c", "e", "s", "s", "i", "n", "g", " ", "u", "n", "u", "s", "u", "a", "l", "l", "y", " ", "h", "i", "g", "h", " ", "n", "u", "m", "b", "e", "r", " ", "o", "f", " ", "e", "n", "d", "p", "o", "i", "n", "t", "s">>

FALLBACK_REASON ==
    <<"M", "u", "l", "t", "i", "p", "l", "e", " ", "f", "e", "a", "t", "u", "r", "e", " ", "d", "e", "v", "i", "a", "t", "i", "o", "n", "s", " ", "f", "r", "o", "m", " ", "l", "e", "a", "r", "n", "e", "d", " ", "b", "a", "s", "e", "l", "i", "n", "e">>

\* "; ".join(reasons)
RECURSIVE Join(_)
Join(reasons) ==
    IF reasons = <<>> THEN <<>>
    ELSE IF Len(reasons) = 1 THEN Head(reasons)
    ELSE Head(reasons) \o <<";", " ">> \o Join(Tail(reasons))

Digit(d) == CASE d = 0 -> "0" [] d = 1 -> "1" [] d = 2 -> "2" [] d = 3 -> "3"
              [] d = 4 -> "4" [] d = 5 -> "5" [] d = 6 -> "6" [] d = 7 -> "7"
              [] d = 8 -> "8" [] d = 9 -> "9"

RECURSIVE IntText(_)
IntText(n) == IF n < 10 THEN <<Digit(n)>> ELSE IntText(n \div 10) \o <<Digit(n % 10)>>

\* str() of a float holding h hundredths (h >= 0), or of nan / inf: "2.0", "2.5", "2.25", "nan"
FloatText(x) ==
    IF x.k = "nan" THEN <<"n", "a", "n">>
    ELSE IF x.k = "inf" THEN <<"i", "n", "f">>
    ELSE LET h == x.v
         IN  IntText(h \div 100) \o <<".">> \o
             (IF h % 10 = 0 THEN <<Digit((h % 100) \div 10)>>
              ELSE <<Digit((h % 100) \div 10), Digit(h % 10)>>)

-----------------------------------------------------------------------------
(* DataFrames and CSV files *)

Range(s) == {s[i] : i \in DOMAIN s}

Frame(cols, rows) == [cols |-> cols, rows |-> rows]

HasCol(d, c) == c \in Range(d.cols)

\* df[c]
Column(d, c) == [i \in 1..Len(d.rows) |-> d.rows[i][c]]

\* df[c] = vals : replaces the column, or appends it as the last one
SetColumn(d, c, vals) ==
    [cols |-> IF HasCol(d, c) THEN d.cols ELSE Append(d.cols, c),
     rows |-> [i \in 1..Len(d.rows) |->
                 [k \in DOMAIN d.rows[i] \cup {c} |->
                     IF k = c THEN vals[i] ELSE d.rows[i][k]]]]

\* df[columns] : the listed columns, in the listed order
Select(d, columns) ==
    [cols |-> columns,
     rows |-> [i \in 1..Len(d.rows) |-> [k \in Range(columns) |-> d.rows[i][k]]]]

\* pd.read_csv(file)
ReadCsv(file) == Frame(file.cols, file.rows)

\* the mode="a" slip: the frame's rows are appended to what the file holds
to_csv_append(file, d) ==
    [exists |-> TRUE, cols |-> d.cols, rows |-> file.rows \o d.rows]

\* df.to_csv(file, index=False) : the file is replaced by the frame
to_csv(file, d) == [exists |-> TRUE, cols |-> d.cols, rows |-> d.rows]

-----------------------------------------------------------------------------
(* The feature dataset: features/feature_engineering.py *)

IPS == <<"10.0.0.1", "10.0.0.2", "10.0.0.3", "10.0.0.4">>

\* columns of features.csv, in the order feature_engineering.py writes them
FEATURE_FILE_COLUMNS ==
    <<"ip", "req_per_min", "avg_resp_time", "error_rate", "avg_req_size",
      "unique_endpoints", "burst_score">>

\* Aggregates of one (ip, time window) group.  req_per_min is the size of a
\* group, so it is at least 1; a mean response time of 0 needs resp_time = 0.
Profiles ==
    { [req_per_min |-> 40,  avg_resp_time |-> 100, error_rate |-> 2,
       avg_req_size |-> 500,  unique_endpoints |-> 3],
      [req_per_min |-> 30,  avg_resp_time |-> 500, error_rate |-> 90,
       avg_req_size |-> 1500, unique_endpoints |-> 2],
      [req_per_min |-> 10,  avg_resp_time |-> 0,   error_rate |-> 0,
       avg_req_size |-> 500,  unique_endpoints |-> 1],
      [req_per_min |-> 10,  avg_resp_time |-> 100, error_rate |-> 2,
       avg_req_size |-> 500,  unique_endpoints |-> 5],
      [req_per_min |-> 120, avg_resp_time |-> 100, error_rate |-> 2,
       avg_req_size |-> 500,  unique_endpoints |-> 3] }

\* features["burst_score"] = features["req_per_min"] / features["req_per_min"].max()
\* (thousandths; req_per_min counts the events of a group, so the maximum of a
\* batch that has rows is at least 1)
burst_score(req, max_req) == RoundHalfEven(1000 * req, max_req)

\* the frame feature_engineering.py saves for the aggregated groups
feature_engineering(groups) ==
    LET n == Len(groups)
        max_req == MaxSeq([i \in 1..n |-> groups[i].req_per_min])
    IN  Frame(FEATURE_FILE_COLUMNS,
              [i \in 1..n |->
                 [c \in Range(FEATURE_FILE_COLUMNS) |->
                    CASE c = "ip" -> IPS[i]
                      [] c = "burst_score" -> burst_score(groups[i].req_per_min, max_req)
                      [] OTHER -> groups[i][c]]])

\* Column lists of the input file handed to run_anomaly_detection(input_file):
\* the file feature_engineering.py writes, the same columns in another order,
\* and files that lack columns.
InputColumns ==
    { FEATURE_FILE_COLUMNS,
      <<"burst_score", "error_rate", "ip", "unique_endpoints", "req_per_min",
        "avg_req_size", "avg_resp_time">>,
      <<"ip", "req_per_min", "avg_resp_time", "error_rate", "burst_score">>,
      <<"ip", "req_per_min", "avg_resp_time", "burst_score">>,
      <<"ip", "error_rate", "req_per_min", "burst_score">> }

\* a batch has at least one group
RowBatches == UNION { [1..n -> Profiles] : n \in 1..MaxRows }

FeatureFiles ==
    { to_csv(NoFile, Select(feature_engineering(g), cols)) :
        g \in RowBatches, cols \in InputColumns }

-----------------------------------------------------------------------------
(* The fitted model: ml/train_model.py, consumed as an opaque artifact.     *)
(* An isolation forest is built of splits (feature position, split value); *)
(* the artifact is modelled as one such split, chosen when it is fitted:   *)
(* decision_function(X) = split_value - X[:, split_feature], and predict   *)
(* is -1 (outlier) where the decision function is negative.                *)

\* X = df.drop(columns=["ip"]) of the file feature_engineering.py writes
TRAINING_SCHEMA ==
    <<"req_per_min", "avg_resp_time", "error_rate", "avg_req_size",
      "unique_endpoints", "burst_score">>

Schemas ==
    { TRAINING_SCHEMA,
      <<"req_per_min", "error_rate", "avg_resp_time">>,
      <<"burst_score", "req_per_min">> }

SplitValues == {-1, 35, 100000}

Models ==
    UNION { { [has_feature_names |-> TRUE, feature_names_in_ |-> s,
                split_feature |-> f, split_value |-> v] :
                 f \in 1..Len(s), v \in SplitValues } : s \in Schemas }
    \cup
    \* fitted on a NumPy array: no feature_names_in_
    { [has_feature_names |-> FALSE, feature_names_in_ |-> <<>>,
       split_feature |-> 1, split_value |-> 35] }

\* model.decision_function(X): positional, reads the column at split_feature
decision_function(model, X) ==
    [i \in 1..Len(X.rows) |->
        model.split_value - X.rows[i][X.cols[model.split_feature]]]

\* model.predict(X)
predict(model, X) ==
    [i \in 1..Len(X.rows) |-> IF decision_function(model, X)[i] < 0 THEN -1 ELSE 1]

-----------------------------------------------------------------------------
(* ml/anomaly_detector.py *)

\* the slip of swapping the two sides: the file's columns the schema lacks
MissingColumnsSwapped(feature_columns, d) ==
    SelectSeq(d.cols, LAMBDA col : col \notin Range(feature_columns))

\* missing = [col for col in feature_columns if col not in df.columns]
MissingColumns(feature_columns, d) ==
    SelectSeq(feature_columns, LAMBDA col : ~HasCol(d, col))

\* the slip of selecting the schema's columns in the file's order
FeatureMatrixInFileOrder(d, feature_columns) ==
    Select(d, SelectSeq(d.cols, LAMBDA col : col \in Range(feature_columns)))

\* X = df[feature_columns].copy()
FeatureMatrix(d, feature_columns) == Select(d, feature_columns)

\* lambda x: "Anomaly" if x == -1 else "Normal"
anomaly_label(x) == IF x = -1 THEN "Anomaly" ELSE "Normal"

\* the frame after lines 71-77: anomaly_score, anomaly and anomaly_label added
Scored(model, d, X) ==
    LET d1 == SetColumn(d, "anomaly_score", decision_function(model, X))
        d2 == SetColumn(d1, "anomaly", predict(model, X))
    IN  SetColumn(d2, "anomaly_label",
                  [i \in 1..Len(d2.rows) |-> anomaly_label(d2.rows[i]["anomaly"])])

Raise(type, msg, args) == [type |-> type, msg |-> msg, args |-> args]

\* an exception leaves run_engine: the process ends
Abort(e) ==
    /\ pc' = "failed"
    /\ error' = e
    /\ heap' = <<>>
    /\ df' = 0

run_anomaly_detection ==
    /\ pc = "detect"
    /\ LET d == ReadCsv(features_csv)
           model == model_pkl
       IN  IF ~model.has_feature_names
           THEN /\ Abort(Raise("RuntimeError", "Model does not contain feature_names_in_", <<>>))
                /\ UNCHANGED <<anomaly_results_csv, model_input, written, stages, handed>>
           ELSE LET feature_columns == model.feature_names_in_
                    missing == MissingColumns(feature_columns, d)
                IN  IF missing # <<>>
                    THEN /\ Abort(Raise("ValueError", "Missing required feature columns", missing))
                         /\ UNCHANGED <<anomaly_results_csv, model_input, written, stages, handed>>
                    ELSE LET X == FeatureMatrix(d, feature_columns)
                             out == Scored(model, d, X)
                         IN  /\ model_input' = [called |-> TRUE, cols |-> X.cols, rows |-> X.rows]
                             /\ anomaly_results_csv' = to_csv(anomaly_results_csv, out)
                             /\ written' = Append(written, "anomaly_results.csv")
                             /\ heap' = <<out, X>>
                             /\ df' = 1
                             /\ stages' = Append(stages, "anomaly detection")
                             /\ pc' = "explain"
                             /\ error' = NoError
                             /\ UNCHANGED handed
    /\ UNCHANGED <<features_csv, model_pkl, anomaly_explanations_csv,
                   rule_recommendations_csv, runs, first_run, fn,
                   last_writer, rule_error>>

-----------------------------------------------------------------------------
(* ml/explainability.py *)

RECURSIVE SumOver(_, _, _)
SumOver(d, c, idx) ==
    IF idx = {} THEN 0
    ELSE LET i == CHOOSE j \in idx : TRUE
         IN  d.rows[i][c] + SumOver(d, c, idx \ {i})

NormalRows(d) == {i \in 1..Len(d.rows) : d.rows[i]["anomaly_label"] = "Normal"}

BASELINE_COLUMNS ==
    {"req_per_min", "error_rate", "avg_resp_time", "avg_req_size", "unique_endpoints"}

\* baseline = normal_df.mean(numeric_only=True), kept as the exact rational
\* sum[c] / n of every column; n = 0 is the mean of no rows, which is NaN
Baseline(d) ==
    [n |-> Cardinality(NormalRows(d)),
     sum |-> [c \in BASELINE_COLUMNS \cap Range(d.cols) |-> SumOver(d, c, NormalRows(d))]]

\* x > baseline[c] * num / den ; any comparison with NaN is False
Exceeds(x, baseline, c, num, den) ==
    /\ baseline.n > 0
    /\ x * baseline.n * den > num * baseline.sum[c]

\* (df["req_per_min"] / baseline["req_per_min"]).round(2), in hundredths
req_rate_deviation(x, baseline) ==
    IF baseline.n = 0 THEN NaN
    ELSE IF baseline.sum["req_per_min"] = 0 THEN (IF x = 0 THEN NaN ELSE Inf)
    ELSE Num(RoundHalfEven(100 * x * baseline.n, baseline.sum["req_per_min"]))

\* the reasons of explain_row before the fallback, in the order of the checks
Reasons(row, baseline) ==
    (IF Exceeds(row["req_per_min"], baseline, "req_per_min", 2, 1)
     THEN <<RATE_PREFIX \o FloatText(row["req_rate_deviation"]) \o TIMES_SIGN>> ELSE <<>>)
    \o
    (IF Exceeds(row["error_rate"], baseline, "error_rate", 2, 1)
     THEN <<ERROR_REASON>> ELSE <<>>)
    \o
    (IF Exceeds(row["avg_resp_time"], baseline, "avg_resp_time", 3, 2)
     THEN <<LATENCY_REASON>> ELSE <<>>)
    \o
    (IF "avg_req_size" \in DOMAIN row
        /\ Exceeds(row["avg_req_size"], baseline, "avg_req_size", 3, 2)
     THEN <<PAYLOAD_REASON>> ELSE <<>>)
    \o
    (IF "unique_endpoints" \in DOMAIN row
        /\ Exceeds(row["unique_endpoints"], baseline, "unique_endpoints", 3, 2)
     THEN <<ENDPOINT_REASON>> ELSE <<>>)

\* the slip of leaving out the fallback reason
explain_row_no_fallback(row, baseline) == Join(Reasons(row, baseline))

\* explain_row(row)
explain_row(row, baseline) ==
    LET reasons == Reasons(row, baseline)
    IN  Join(IF reasons = <<>> THEN <<FALLBACK_REASON>> ELSE reasons)

\* the key explain_row fails to find in an Anomaly row, if any
MissingRowKey(d) ==
    IF ~HasCol(d, "error_rate") THEN <<"error_rate">>
    ELSE IF ~HasCol(d, "avg_resp_time") THEN <<"avg_resp_time">>
    ELSE <<>>

\* the frame after line 39: req_rate_deviation added
WithDeviation(d) ==
    SetColumn(d, "req_rate_deviation",
              [i \in 1..Len(d.rows) |-> req_rate_deviation(d.rows[i]["req_per_min"], Baseline(d))])

\* the frame after lines 72-77: explanation added
Explained(d) ==
    LET baseline == Baseline(d)
        d1 == WithDeviation(d)
    IN  SetColumn(d1, "explanation",
                  [i \in 1..Len(d1.rows) |->
                     IF d1.rows[i]["anomaly_label"] = "Anomaly"
                     THEN explain_row(d1.rows[i], baseline)
                     ELSE NORMAL_EXPLANATION])

generate_explanations ==
    /\ pc = "explain"
    /\ handed' = [ref |-> df, val |-> heap[df]]
    /\ LET d == heap[df]
           anomalies == {i \in 1..Len(d.rows) : d.rows[i]["anomaly_label"] = "Anomaly"}
       IN  IF ~HasCol(d, "req_per_min")
           THEN /\ Abort(Raise("KeyError", "req_per_min", <<"req_per_min">>))
                /\ UNCHANGED <<anomaly_explanations_csv, written, stages>>
           ELSE IF anomalies # {} /\ MissingRowKey(d) # <<>>
           THEN /\ Abort(Raise("KeyError", Head(MissingRowKey(d)), MissingRowKey(d)))
                /\ UNCHANGED <<anomaly_explanations_csv, written, stages>>
           ELSE LET out == Explained(d)
                \* the columns are added to the DataFrame that was passed in, and
                \* that same object is returned
                IN  /\ heap' = [heap EXCEPT ![df] = out]
                    /\ df' = df
                    /\ anomaly_explanations_csv' = to_csv(anomaly_explanations_csv, out)
                    /\ written' = Append(written, "anomaly_explanations.csv")
                    /\ stages' = Append(stages, "explanation")
                    /\ pc' = "risk"
                    /\ error' = NoError
    /\ UNCHANGED <<features_csv, model_pkl, anomaly_results_csv, rule_recommendations_csv,
                   model_input, runs, first_run, fn,
                   last_writer, rule_error>>

-----------------------------------------------------------------------------
(* ml/ml_engine.py *)

\* x / m of two non-negative floats
Quotient(x, m) == IF m # 0 THEN "finite" ELSE IF x = 0 THEN "nan" ELSE "inf"

\* the slip of weighting the response-time term by 4 as the other two terms
risk_score_equal_weights(row, max_req, max_resp) ==
    LET q1 == Quotient(row["req_per_min"], max_req)
        q2 == Quotient(row["avg_resp_time"], max_resp)
    IN  IF q1 = "nan" \/ q2 = "nan" THEN NaN
        ELSE IF q1 = "inf" \/ q2 = "inf" THEN Inf
        ELSE Num(RoundHalfEven(400 * row["req_per_min"] * max_resp
                                 + 4 * row["error_rate"] * max_req * max_resp
                                 + 400 * row["avg_resp_time"] * max_req,
                               max_req * max_resp))

\* one cell of df["risk_score"], in hundredths:
\* ((req / max_req) * 4 + error_rate * 4 + (resp / max_resp) * 2).round(2)
risk_score(row, max_req, max_resp) ==
    LET q1 == Quotient(row["req_per_min"], max_req)
        q2 == Quotient(row["avg_resp_time"], max_resp)
    IN  IF q1 = "nan" \/ q2 = "nan" THEN NaN
        ELSE IF q1 = "inf" \/ q2 = "inf" THEN Inf
        ELSE Num(RoundHalfEven(400 * row["req_per_min"] * max_resp
                                 + 4 * row["error_rate"] * max_req * max_resp
                                 + 200 * row["avg_resp_time"] * max_req,
                               max_req * max_resp))

\* compute_risk_score(df)
compute_risk_score(d) ==
    LET max_req == MaxSeq(Column(d, "req_per_min"))
        max_resp == MaxSeq(Column(d, "avg_resp_time"))
    IN  SetColumn(d, "risk_score",
                  [i \in 1..Len(d.rows) |-> risk_score(d.rows[i], max_req, max_resp)])

\* score >= t for a float score in hundredths; a comparison with NaN is False
AtLeast(score, t) == score.k = "inf" \/ (score.k = "num" /\ score.v >= t)

\* the slip of turning the second comparison around (score <= 4)
severity_turned(score) ==
    IF AtLeast(score, 700) THEN "High"
    ELSE IF score.k = "num" /\ score.v <= 400 THEN "Medium"
    ELSE "Low"

\* the slip of comparing strictly (score > 7, score > 4)
severity_strict(score) ==
    IF score.k = "inf" \/ (score.k = "num" /\ score.v > 700) THEN "High"
    ELSE IF score.k = "inf" \/ (score.k = "num" /\ score.v > 400) THEN "Medium"
    ELSE "Low"

\* severity(score) of assign_severity_and_action: thresholds 7 and 4
severity(score) ==
    IF AtLeast(score, 700) THEN "High"
    ELSE IF AtLeast(score, 400) THEN "Medium"
    ELSE "Low"

\* action(row)
action(row) ==
    IF row["severity"] = "High" THEN "Block IP and alert SOC immediately"
    ELSE IF row["severity"] = "Medium" THEN "Apply rate limiting and monitor closely"
    ELSE "Allow traffic and continue monitoring"

\* assign_severity_and_action(df)
assign_severity_and_action(d) ==
    LET d1 == SetColumn(d, "severity",
                        [i \in 1..Len(d.rows) |-> severity(d.rows[i]["risk_score"])])
    IN  SetColumn(d1, "recommended_action",
                  [i \in 1..Len(d1.rows) |-> action(d1.rows[i])])

\* the first column compute_risk_score fails to find, if any
MissingRiskKey(d) ==
    IF ~HasCol(d, "req_per_min") THEN <<"req_per_min">>
    ELSE IF ~HasCol(d, "error_rate") THEN <<"error_rate">>
    ELSE IF ~HasCol(d, "avg_resp_time") THEN <<"avg_resp_time">>
    ELSE <<>>

\* run_engine, line 62-65: a new run starts
StartRun ==
    /\ pc \in {"idle", "done", "failed"}
    /\ runs < MaxRuns
    /\ runs' = runs + 1
    /\ pc' = "detect"
    /\ heap' = <<>>
    /\ df' = 0
    /\ handed' = NoHandoff
    /\ model_input' = NoInput
    /\ error' = NoError
    /\ written' = <<>>
    /\ stages' = <<>>
    /\ first_run' = IF runs = 1
                    THEN [ended |-> TRUE, pc |-> pc, error |-> error,
                          files |-> <<features_csv, anomaly_results_csv,
                                      anomaly_explanations_csv, rule_recommendations_csv>>]
                    ELSE first_run
    /\ UNCHANGED <<features_csv, model_pkl, anomaly_results_csv, anomaly_explanations_csv,
                   rule_recommendations_csv, fn, last_writer, rule_error>>

\* run_engine, step 3
RiskScoring ==
    /\ pc = "risk"
    /\ handed' = [ref |-> df, val |-> heap[df]]
    /\ LET d == heap[df]
       IN  IF MissingRiskKey(d) # <<>>
           THEN /\ Abort(Raise("KeyError", Head(MissingRiskKey(d)), MissingRiskKey(d)))
                /\ UNCHANGED stages
           ELSE /\ heap' = [heap EXCEPT ![df] = compute_risk_score(d)]
                /\ df' = df
                /\ stages' = Append(stages, "risk scoring")
                /\ pc' = "severity"
                /\ error' = NoError
    /\ UNCHANGED <<features_csv, model_pkl, anomaly_results_csv, anomaly_explanations_csv,
                   rule_recommendations_csv, model_input, written, runs, first_run, fn,
                   last_writer, rule_error>>

\* run_engine, step 4
SeverityAndAction ==
    /\ pc = "severity"
    /\ handed' = [ref |-> df, val |-> heap[df]]
    /\ heap' = [heap EXCEPT ![df] = assign_severity_and_action(heap[df])]
    /\ df' = df
    /\ stages' = Append(stages, "severity/action")
    /\ pc' = "save"
    /\ UNCHANGED <<features_csv, model_pkl, anomaly_results_csv, anomaly_explanations_csv,
                   rule_recommendations_csv, model_input, error, written, runs, first_run, fn,
                   last_writer, rule_error>>

\* the slip of saving the final dataset before risk scoring
SaveFinalEarly ==
    /\ pc = "risk"
    /\ rule_recommendations_csv' = to_csv(rule_recommendations_csv, heap[df])
    /\ written' = Append(written, "rule_recommendations.csv")
    /\ pc' = "done"
    /\ last_writer' = "ml_engine"
    /\ UNCHANGED <<features_csv, model_pkl, anomaly_results_csv, anomaly_explanations_csv,
                   heap, df, handed, model_input, error, stages, runs, first_run, fn,
                   rule_error>>

\* run_engine, step 5: df.to_csv(FINAL_OUTPUT, index=False)
SaveFinal ==
    /\ pc = "save"
    /\ rule_recommendations_csv' = to_csv(rule_recommendations_csv, heap[df])
    /\ written' = Append(written, "rule_recommendations.csv")
    /\ pc' = "done"
    /\ last_writer' = "ml_engine"
    /\ UNCHANGED <<features_csv, model_pkl, anomaly_results_csv, anomaly_explanations_csv,
                   heap, df, handed, model_input, error, stages, runs, first_run, fn,
                   rule_error>>

NoFirstRun ==
    [ended |-> FALSE, pc |-> "idle", error |-> NoError,
     files |-> <<NoFile, NoFile, NoFile, NoFile>>]

Init ==
    /\ features_csv \in FeatureFiles
    /\ model_pkl \in Models
    /\ anomaly_results_csv = NoFile
    /\ anomaly_explanations_csv = NoFile
    /\ rule_recommendations_csv = NoFile
    /\ pc = "idle"
    /\ heap = <<>>
    /\ df = 0
    /\ handed = NoHandoff
    /\ model_input = NoInput
    /\ error = NoError
    /\ written = <<>>
    /\ stages = <<>>
    /\ runs = 0
    /\ first_run = NoFirstRun
    /\ last_writer = "none"
    /\ rule_error = NoError
    /\ fn = NoCall

Next ==
    \/ StartRun
    \/ run_anomaly_detection
    \/ generate_explanations
    \/ RiskScoring
    \/ SeverityAndAction
    \/ SaveFinal

Spec == Init /\ [][Next]_vars

-----------------------------------------------------------------------------
(* rules/rule_engine.py: the weighted-cap policy *)

\* int(x) of the float x = num / den (den > 0): truncation toward zero
Truncate(num, den) == IF num >= 0 THEN num \div den ELSE -((-num) \div den)

Min(a, b) == IF a < b THEN a ELSE b

\* the slip of writing max for the cap of the request-rate term
request_rate_impact_max(req) == IF 500 * req > 30000 THEN 500 * req ELSE 30000

\* min(row["req_per_min"] * 0.5, 30), in thousandths
request_rate_impact(req) == Min(500 * req, 30000)

\* the slip of weighting the burst term by 40 as the error term
calculate_risk_burst_weight(row) ==
    LET score == request_rate_impact(row[1]) + 400 * row[2] + 40 * row[3]
    IN  Truncate(Min(score, 100000), 1000)

\* calculate_risk(row): row = <<req_per_min, error_rate (hundredths), burst_score (thousandths)>>
calculate_risk(row) ==
    LET score == request_rate_impact(row[1]) + 400 * row[2] + 30 * row[3]
    IN  Truncate(Min(score, 100000), 1000)

\* assign_severity(score): thresholds 70 and 40
assign_severity(score) ==
    IF score >= 70 THEN "High"
    ELSE IF score >= 40 THEN "Medium"
    ELSE "Low"

UPPERCASE == <<"A", "B", "C", "D", "E", "F", "G", "H", "I", "J", "K", "L", "M", "N", "O", "P", "Q", "R", "S", "T", "U", "V", "W", "X", "Y", "Z">>
LOWERCASE == <<"a", "b", "c", "d", "e", "f", "g", "h", "i", "j", "k", "l", "m", "n", "o", "p", "q", "r", "s", "t", "u", "v", "w", "x", "y", "z">>

\* str.lower(): the letters A-Z are mapped, every other character is kept
lower(text) ==
    [i \in 1..Len(text) |->
        IF \E k \in 1..26 : UPPERCASE[k] = text[i]
        THEN LOWERCASE[CHOOSE k \in 1..26 : UPPERCASE[k] = text[i]]
        ELSE text[i]]

\* keyword in text
Contains(text, keyword) ==
    \E i \in 1..(Len(text) - Len(keyword) + 1) :
        SubSeq(text, i, i + Len(keyword) - 1) = keyword

HIGH_REQUEST_RATE == <<"h", "i", "g", "h", " ", "r", "e", "q", "u", "e", "s", "t", " ", "r", "a", "t", "e">>
REQUEST_RATE == <<"r", "e", "q", "u", "e", "s", "t", " ", "r", "a", "t", "e">>
ERROR_RATE == <<"e", "r", "r", "o", "r", " ", "r", "a", "t", "e">>
PAYLOAD == <<"p", "a", "y", "l", "o", "a", "d">>

\* the slip of matching "request rate", the words the explainer does write
recommend_rule_request_rate(row) ==
    IF row["anomaly_label"] # "Anomaly" THEN "No action required"
    ELSE LET explanation == lower(row["explanation"])
         IN  IF Contains(explanation, REQUEST_RATE) THEN "Rate limit IP for 5 minutes"
             ELSE IF Contains(explanation, ERROR_RATE) THEN "Temporarily block IP"
             ELSE IF Contains(explanation, PAYLOAD) THEN "Inspect payload and block if repeated"
             ELSE "Monitor traffic closely"

\* recommend_rule(row)
recommend_rule(row) ==
    IF row["anomaly_label"] # "Anomaly" THEN "No action required"
    ELSE LET explanation == lower(row["explanation"])
         IN  IF Contains(explanation, HIGH_REQUEST_RATE) THEN "Rate limit IP for 5 minutes"
             ELSE IF Contains(explanation, ERROR_RATE) THEN "Temporarily block IP"
             ELSE IF Contains(explanation, PAYLOAD) THEN "Inspect payload and block if repeated"
             ELSE "Monitor traffic closely"

\* df["recommended_action"] = df.apply(recommend_rule, axis=1)
apply_recommend_rule(d) ==
    SetColumn(d, "recommended_action",
              [i \in 1..Len(d.rows) |-> recommend_rule(d.rows[i])])

\* a Python int, as calculate_risk returns: int(min(score, 100))
PyInt(v) == [k |-> "int", v |-> v]

\* df["risk_score"] = df.apply(calculate_risk, axis=1)
apply_calculate_risk(d) ==
    SetColumn(d, "risk_score",
              [i \in 1..Len(d.rows) |->
                  PyInt(calculate_risk(<<d.rows[i]["req_per_min"], d.rows[i]["error_rate"],
                                       d.rows[i]["burst_score"]>>))])

\* df["severity"] = df["risk_score"].apply(assign_severity)
apply_assign_severity(d) ==
    SetColumn(d, "severity",
              [i \in 1..Len(d.rows) |-> assign_severity(d.rows[i]["risk_score"].v)])

\* the first column calculate_risk fails to find, if any
MissingRuleKey(d) ==
    IF ~HasCol(d, "req_per_min") THEN <<"req_per_min">>
    ELSE IF ~HasCol(d, "error_rate") THEN <<"error_rate">>
    ELSE IF ~HasCol(d, "burst_score") THEN <<"burst_score">>
    ELSE <<>>

\* the slip of leaving out the severity assignment of line 41
rule_engine_frame_no_severity(d) ==
    apply_recommend_rule(apply_calculate_risk(d))

\* the frame after lines 29, 41 and 62
rule_engine_frame(d) ==
    apply_recommend_rule(apply_assign_severity(apply_calculate_risk(d)))

\* one run of the script rule_engine.py: it reads INPUT_FILE, scores it with
\* the weighted-cap policy and the keyword matcher, and writes OUTPUT_FILE
rule_engine ==
    /\ IF ~anomaly_explanations_csv.exists
       THEN /\ rule_error' = Raise("FileNotFoundError",
                                     "data/processed/anomaly_explanations.csv", <<>>)
            /\ UNCHANGED <<rule_recommendations_csv, last_writer>>
       ELSE LET d == ReadCsv(anomaly_explanations_csv)
            IN  IF MissingRuleKey(d) # <<>>
                THEN /\ rule_error' = Raise("KeyError", Head(MissingRuleKey(d)),
                                              MissingRuleKey(d))
                     /\ UNCHANGED <<rule_recommendations_csv, last_writer>>
                ELSE /\ rule_recommendations_csv' =
                            to_csv(rule_recommendations_csv, rule_engine_frame(d))
                     /\ last_writer' = "rule_engine"
                     /\ rule_error' = NoError
    /\ UNCHANGED <<features_csv, model_pkl, anomaly_results_csv, anomaly_explanations_csv,
                   pc, heap, df, handed, model_input, error, written, stages, runs,
                   first_run, fn>>

\* feature files for the two programs side by side: the full file, one without
\* error_rate (both programs fail on it) and one without avg_resp_time (only
\* run_engine fails on it)
BothColumns ==
    { FEATURE_FILE_COLUMNS,
      <<"ip", "req_per_min", "avg_resp_time", "burst_score">>,
      <<"ip", "error_rate", "req_per_min", "burst_score">> }

BothFiles == {f \in FeatureFiles : f.cols \in BothColumns}

\* models that split on req_per_min: every vector, some vectors or no vector an outlier
BothModels ==
    {m \in Models : m.feature_names_in_ = <<"burst_score", "req_per_min">>
                      /\ m.split_feature = 2}

InitBoth ==
    /\ features_csv \in BothFiles
    /\ model_pkl \in BothModels
    /\ anomaly_results_csv = NoFile
    /\ anomaly_explanations_csv = NoFile
    /\ rule_recommendations_csv = NoFile
    /\ pc = "idle"
    /\ heap = <<>>
    /\ df = 0
    /\ handed = NoHandoff
    /\ model_input = NoInput
    /\ error = NoError
    /\ written = <<>>
    /\ stages = <<>>
    /\ runs = 0
    /\ first_run = NoFirstRun
    /\ last_writer = "none"
    /\ rule_error = NoError
    /\ fn = NoCall

\* run_engine and the script, in any order
NextBoth ==
    \/ StartRun
    \/ run_anomaly_detection
    \/ generate_explanations
    \/ RiskScoring
    \/ SeverityAndAction
    \/ SaveFinal
    \/ rule_engine

SpecBoth == InitBoth /\ [][NextBoth]_vars

-----------------------------------------------------------------------------
(* The scoring functions applied to inputs drawn from bounded sets *)

\* largest score handed to the two severity functions: hundredths for the
\* composite policy (in steps of a quarter), units for the weighted-cap policy
MaxScore == 110

CompositeScores ==
    {Num(25 * k) : k \in 0..(MaxScore \div 2)} \cup {Num(399), Num(401), Num(699), Num(701)}
    \cup {NaN, Inf}

WeightedScores == 0..MaxScore

\* inputs of calculate_risk, inside and outside the ranges of a feature vector
RiskRequestCounts == {-4, 0, 1, 3, 59, 60, 61, 200}
RiskErrorRates == {-10, 0, 1, 33, 99, 100, 120}
RiskBurstScores == {-100, 0, 1, 333, 999, 1000, 1200}

\* largest number of feature vectors in a batch handed to a scoring policy
MaxBatch == 2

\* feature values of those vectors, inside and outside the ranges of a feature vector
BatchRequestCounts == {0, 30, 40}
BatchErrorRates == {0, 100, 120}
BatchResponseTimes == {0, 100, 500}

BATCH_COLUMNS == <<"req_per_min", "avg_resp_time", "error_rate">>

BatchRows ==
    { [req_per_min |-> r, avg_resp_time |-> t, error_rate |-> e] :
        r \in BatchRequestCounts, t \in BatchResponseTimes, e \in BatchErrorRates }

Batches == UNION { {Frame(BATCH_COLUMNS, rows) : rows \in [1..n -> BatchRows]} : n \in 1..MaxBatch }

\* batches as feature_engineering leaves them, for the two policies side by side
PolicyRequestCounts == {10, 40, 120}
PolicyErrorRates == {0, 90}
PolicyResponseTimes == {100, 500}

POLICY_COLUMNS == <<"req_per_min", "avg_resp_time", "error_rate", "burst_score">>

PolicyRows ==
    { [req_per_min |-> r, avg_resp_time |-> t, error_rate |-> e] :
        r \in PolicyRequestCounts, t \in PolicyResponseTimes, e \in PolicyErrorRates }

WithBurstScore(rows) ==
    LET max_req == MaxSeq([i \in 1..Len(rows) |-> rows[i]["req_per_min"]])
    IN  [i \in 1..Len(rows) |->
            [c \in Range(POLICY_COLUMNS) |->
                IF c = "burst_score" THEN burst_score(rows[i]["req_per_min"], max_req)
                ELSE rows[i][c]]]

PolicyBatches ==
    UNION { {Frame(POLICY_COLUMNS, WithBurstScore(rows)) : rows \in [1..n -> PolicyRows]} :
            n \in 1..MaxBatch }

\* the two-vector window: a Normal vector of 40 requests with error rate 0.02
\* and an Anomaly vector of 30 requests with error rate 0.9
ScenarioResponseTimes == {0, 100, 118, 119, 120, 600}

SCENARIO_COLUMNS == <<"req_per_min", "avg_resp_time", "error_rate", "anomaly_label">>

ScenarioBatch(t_normal, t_anomaly) ==
    Frame(SCENARIO_COLUMNS,
          << [req_per_min |-> 40, avg_resp_time |-> t_normal, error_rate |-> 2,
              anomaly_label |-> "Normal"],
             [req_per_min |-> 30, avg_resp_time |-> t_anomaly, error_rate |-> 90,
              anomaly_label |-> "Anomaly"] >>)

ScenarioBatches ==
    {ScenarioBatch(tn, ta) : tn \in ScenarioResponseTimes, ta \in ScenarioResponseTimes}

\* labelled batches for the explainer and the keyword matcher: one Normal
\* vector that sets the baseline, and one vector deviating in any of the five features
MATCHER_COLUMNS ==
    <<"req_per_min", "avg_resp_time", "error_rate", "avg_req_size", "unique_endpoints",
      "anomaly_label">>

BaselineRequestCounts == {0, 10}
MatcherRequestCounts == {10, 25, 120}
MatcherErrorRates == {2, 90}
MatcherResponseTimes == {100, 500}
MatcherRequestSizes == {500, 1500}
MatcherEndpointCounts == {2, 5}

MatcherBatches ==
    { Frame(MATCHER_COLUMNS,
            << [req_per_min |-> b, avg_resp_time |-> 100, error_rate |-> 10,
                avg_req_size |-> 500, unique_endpoints |-> 2, anomaly_label |-> "Normal"],
               [req_per_min |-> r, avg_resp_time |-> t, error_rate |-> e,
                avg_req_size |-> z, unique_endpoints |-> u, anomaly_label |-> l] >>) :
        b \in BaselineRequestCounts, r \in MatcherRequestCounts, e \in MatcherErrorRates,
        t \in MatcherResponseTimes, z \in MatcherRequestSizes, u \in MatcherEndpointCounts,
        l \in {"Normal", "Anomaly"} }

\* the calls to make: the function and its arguments, no result yet
Calls ==
    { [NoCall EXCEPT !.op = "recommend_rule", !.frame = d] : d \in MatcherBatches }
    \cup
    { [NoCall EXCEPT !.op = "composite", !.frame = d] : d \in ScenarioBatches }
    \cup
    { [NoCall EXCEPT !.op = "policies", !.frame = d] : d \in PolicyBatches }
    \cup
    { [NoCall EXCEPT !.op = "composite", !.frame = d] : d \in Batches }
    \cup
    { [NoCall EXCEPT !.op = "severity", !.a = a, !.b = b] :
        a \in CompositeScores, b \in CompositeScores }
    \cup
    { [NoCall EXCEPT !.op = "assign_severity", !.a = Num(a), !.b = Num(b)] :
        a \in WeightedScores, b \in WeightedScores }
    \cup
    { [NoCall EXCEPT !.op = "calculate_risk", !.row = <<r, e, b>>] :
        r \in RiskRequestCounts, e \in RiskErrorRates, b \in RiskBurstScores }

call_severity ==
    /\ fn.op = "severity" /\ ~fn.done
    /\ fn' = [fn EXCEPT !.done = TRUE, !.ra = severity(fn.a), !.rb = severity(fn.b)]
    /\ UNCHANGED <<features_csv, model_pkl, anomaly_results_csv, anomaly_explanations_csv,
                   rule_recommendations_csv, pc, heap, df, handed, model_input, error,
                   written, stages, runs, first_run, last_writer, rule_error>>

call_assign_severity ==
    /\ fn.op = "assign_severity" /\ ~fn.done
    /\ fn' = [fn EXCEPT !.done = TRUE, !.ra = assign_severity(fn.a.v),
                        !.rb = assign_severity(fn.b.v)]
    /\ UNCHANGED <<features_csv, model_pkl, anomaly_results_csv, anomaly_explanations_csv,
                   rule_recommendations_csv, pc, heap, df, handed, model_input, error,
                   written, stages, runs, first_run, last_writer, rule_error>>

call_calculate_risk ==
    /\ fn.op = "calculate_risk" /\ ~fn.done
    /\ fn' = [fn EXCEPT !.done = TRUE, !.out = calculate_risk(fn.row)]
    /\ UNCHANGED <<features_csv, model_pkl, anomaly_results_csv, anomaly_explanations_csv,
                   rule_recommendations_csv, pc, heap, df, handed, model_input, error,
                   written, stages, runs, first_run, last_writer, rule_error>>

\* the composite policy of ml_engine applied to a batch: lines 72 and 75 of run_engine
call_composite ==
    /\ fn.op = "composite" /\ ~fn.done
    /\ fn' = [fn EXCEPT !.done = TRUE,
                        !.composite = assign_severity_and_action(compute_risk_score(fn.frame))]
    /\ UNCHANGED <<features_csv, model_pkl, anomaly_results_csv, anomaly_explanations_csv,
                   rule_recommendations_csv, pc, heap, df, handed, model_input, error,
                   written, stages, runs, first_run, last_writer, rule_error>>

\* both policies applied to one batch: ml_engine lines 72 and 75, rule_engine lines 29 and 41
call_policies ==
    /\ fn.op = "policies" /\ ~fn.done
    /\ fn' = [fn EXCEPT !.done = TRUE,
                        !.composite = assign_severity_and_action(compute_risk_score(fn.frame)),
                        !.weighted = apply_assign_severity(apply_calculate_risk(fn.frame))]
    /\ UNCHANGED <<features_csv, model_pkl, anomaly_results_csv, anomaly_explanations_csv,
                   rule_recommendations_csv, pc, heap, df, handed, model_input, error,
                   written, stages, runs, first_run, last_writer, rule_error>>

\* the keyword matcher applied to what the explainer emits:
\* explainability lines 34-78, rule_engine line 62
call_recommend_rule ==
    /\ fn.op = "recommend_rule" /\ ~fn.done
    /\ fn' = [fn EXCEPT !.done = TRUE, !.weighted = apply_recommend_rule(Explained(fn.frame))]
    /\ UNCHANGED <<features_csv, model_pkl, anomaly_results_csv, anomaly_explanations_csv,
                   rule_recommendations_csv, pc, heap, df, handed, model_input, error,
                   written, stages, runs, first_run, last_writer, rule_error>>

InitFn ==
    /\ features_csv = NoFile
    /\ model_pkl \in {m \in Models : ~m.has_feature_names}
    /\ anomaly_results_csv = NoFile
    /\ anomaly_explanations_csv = NoFile
    /\ rule_recommendations_csv = NoFile
    /\ pc = "idle"
    /\ heap = <<>>
    /\ df = 0
    /\ handed = NoHandoff
    /\ model_input = NoInput
    /\ error = NoError
    /\ written = <<>>
    /\ stages = <<>>
    /\ runs = 0
    /\ first_run = NoFirstRun
    /\ last_writer = "none"
    /\ rule_error = NoError
    /\ fn \in Calls

NextFn ==
    \/ call_severity
    \/ call_assign_severity
    \/ call_calculate_risk
    \/ call_composite
    \/ call_policies
    \/ call_recommend_rule

\* the scoring functions alone
SpecFn == InitFn /\ [][NextFn]_vars

-----------------------------------------------------------------------------
(* Properties *)

Position(seq, x) == CHOOSE i \in DOMAIN seq : seq[i] = x

\* run_anomaly_detection has returned or raised in the current run
DetectionActed == runs >= 1 /\ pc # "detect"

\* run_anomaly_detection returned in the current run
DetectionReturned == stages # <<>> /\ Head(stages) = "anomaly detection"

\* generate_explanations has returned in the current run
ExplanationReturned == "explanation" \in Range(stages)

\* the input file lacks a column of the model's schema
LacksSchemaColumn ==
    /\ model_pkl.has_feature_names
    /\ \E c \in Range(model_pkl.feature_names_in_) : ~HasCol(features_csv, c)

\* the input file's columns are a superset of the model's schema
CoversSchema ==
    /\ model_pkl.has_feature_names
    /\ \A c \in Range(model_pkl.feature_names_in_) : HasCol(features_csv, c)

\* C1: when the input file lacks a column of the model's schema,
\* run_anomaly_detection raises the ValueError that lists exactly the schema's
\* columns absent from the file, each once and in schema order, and it raises
\* before the model has scored anything and before anomaly_results.csv is written.
C1_MissingColumnsReported ==
    (LacksSchemaColumn /\ DetectionActed) =>
        /\ pc = "failed"
        /\ error.type = "ValueError"
        /\ error.msg = "Missing required feature columns"
        /\ Range(error.args) =
              {c \in Range(model_pkl.feature_names_in_) : ~HasCol(features_csv, c)}
        /\ \A i, j \in DOMAIN error.args :
              i < j => Position(model_pkl.feature_names_in_, error.args[i])
                         < Position(model_pkl.feature_names_in_, error.args[j])
        /\ ~model_input.called
        /\ written = <<>>
        /\ stages = <<>>

\* a run that failed on a file lacking three columns of the training schema
C1_Witness ==
    /\ LacksSchemaColumn
    /\ pc = "failed"
    /\ error.args = <<"error_rate", "avg_req_size", "unique_endpoints">>

\* C2: when the input file's columns are a superset of the model's schema, in
\* any order and with extra columns, run_anomaly_detection returns, and the
\* matrix it passed to the model holds exactly the schema's columns, in schema
\* order, with the file's values: no extra column reaches the model.
C2_SchemaColumnsOnly ==
    (CoversSchema /\ DetectionActed) =>
        /\ DetectionReturned
        /\ anomaly_results_csv.exists
        /\ model_input.called
        /\ model_input.cols = model_pkl.feature_names_in_
        /\ Len(model_input.rows) = Len(features_csv.rows)
        /\ \A i \in DOMAIN model_input.rows :
              /\ DOMAIN model_input.rows[i] = Range(model_pkl.feature_names_in_)
              /\ \A c \in DOMAIN model_input.rows[i] :
                    model_input.rows[i][c] = features_csv.rows[i][c]

\* a file in another column order than the schema, with the extra column ip,
\* scored by a model of the full training schema
C2_Witness ==
    /\ CoversSchema
    /\ DetectionReturned
    /\ model_pkl.feature_names_in_ = TRAINING_SCHEMA
    /\ Head(features_csv.cols) = "burst_score"
    /\ HasCol(features_csv, "ip")
    /\ model_input.called

\* every row of the frame labeled Anomaly has a non-empty explanation and
\* every row labeled Normal the fixed one
ExplanationsWellFormed(d) ==
    \A i \in DOMAIN d.rows :
        /\ d.rows[i]["anomaly_label"] = "Anomaly" => d.rows[i]["explanation"] # <<>>
        /\ d.rows[i]["anomaly_label"] = "Normal"
              => d.rows[i]["explanation"] = NORMAL_EXPLANATION

\* C3: after generate_explanations, in the frame it returned and in the file
\* it saved, every record labeled Anomaly has a non-empty explanation and every
\* record labeled Normal has "Traffic behavior within normal baseline".
C3_ExplanationsPresent ==
    ExplanationReturned =>
        /\ df # 0 => ExplanationsWellFormed(heap[df])
        /\ anomaly_explanations_csv.exists
        /\ ExplanationsWellFormed(anomaly_explanations_csv)

\* a batch with a Normal record and an Anomaly record none of whose checks fired
C3_Witness ==
    /\ ExplanationReturned
    /\ df # 0
    /\ \E i, j \in DOMAIN heap[df].rows :
          /\ heap[df].rows[i]["anomaly_label"] = "Anomaly"
          /\ heap[df].rows[i]["explanation"] = FALLBACK_REASON
          /\ heap[df].rows[j]["anomaly_label"] = "Normal"

Rank(sev) == CASE sev = "Low" -> 1 [] sev = "Medium" -> 2 [] sev = "High" -> 3

\* a <= b on floats: NaN compares with nothing, infinity is above every number
Leq(a, b) ==
    /\ a.k # "nan" /\ b.k # "nan"
    /\ \/ b.k = "inf"
       \/ a.k = "num" /\ b.k = "num" /\ a.v <= b.v

\* C4: under each policy alone, severity is monotonic non-decreasing in the
\* risk score: for scores a <= b, severity(a) <= severity(b) in the order
\* Low < Medium < High, for the composite policy (severity, thresholds 7 and 4)
\* and for the weighted-cap policy (assign_severity, thresholds 70 and 40).
C4_SeverityMonotonic ==
    (fn.done /\ fn.op \in {"severity", "assign_severity"} /\ Leq(fn.a, fn.b))
        => Rank(fn.ra) <= Rank(fn.rb)

\* two composite scores on either side of the threshold 7, in different tiers
C4_Witness ==
    /\ fn.done /\ fn.op = "severity"
    /\ fn.a = Num(699) /\ fn.b = Num(700)
    /\ fn.ra = "Medium" /\ fn.rb = "High"

\* the columns generate_explanations and explain_row read are in the frame
ExplainerColumnsPresent(d) ==
    /\ HasCol(d, "req_per_min")
    /\ HasCol(d, "error_rate")
    /\ HasCol(d, "avg_resp_time")

\* generate_explanations has returned or raised in the current run
ExplanationActed == DetectionReturned /\ pc # "explain"

\* C5: given a batch with zero records labeled Normal, generate_explanations
\* raises a distinct EmptyBaselinePopulation error instead of computing a NaN
\* baseline and emitting explanations and deviation ratios derived from it.
C5_EmptyBaselineRaises ==
    (/\ ExplanationActed
     /\ ExplainerColumnsPresent(anomaly_results_csv)
     /\ NormalRows(anomaly_results_csv) = {})
        => /\ error.type = "EmptyBaselinePopulation"
           /\ ~ExplanationReturned
           /\ ~anomaly_explanations_csv.exists

\* risk scoring has returned in the current run
RiskScoringReturned == "risk scoring" \in Range(stages)

\* the composite score of a row with a normalized term whose divisor is zero
\* defined as zero
risk_score_guarded(row, max_req, max_resp) ==
    LET t1 == IF max_req = 0 THEN 0 ELSE 400 * row["req_per_min"] * max_resp
        t3 == IF max_resp = 0 THEN 0 ELSE 200 * row["avg_resp_time"] * max_req
        m1 == IF max_req = 0 THEN 1 ELSE max_req
        m3 == IF max_resp = 0 THEN 1 ELSE max_resp
    IN  Num(RoundHalfEven(t1 * m3 + 4 * row["error_rate"] * m1 * m3 + t3 * m1, m1 * m3))

\* C6: when a batch-relative maximum used as a divisor is zero (the largest
\* request count or the largest mean response time of the batch), the
\* normalized term is zero for every record: no error is raised and no
\* undefined value enters risk_score.
C6_ZeroMaximumGuarded ==
    (/\ RiskScoringReturned
     /\ df # 0
     /\ \/ MaxSeq(Column(heap[df], "req_per_min")) = 0
        \/ MaxSeq(Column(heap[df], "avg_resp_time")) = 0)
        => \A i \in DOMAIN heap[df].rows :
              /\ IsNum(heap[df].rows[i]["risk_score"])
              /\ heap[df].rows[i]["risk_score"] =
                    risk_score_guarded(heap[df].rows[i],
                        MaxSeq(Column(heap[df], "req_per_min")),
                        MaxSeq(Column(heap[df], "avg_resp_time")))

FINAL_STAGES == <<"anomaly detection", "explanation", "risk scoring", "severity/action">>

IsPrefix(s, t) == Len(s) <= Len(t) /\ \A i \in DOMAIN s : s[i] = t[i]

\* C7: in run_engine the stages complete strictly in the order anomaly
\* detection, explanation, risk scoring, severity/action; the final dataset
\* rule_recommendations.csv is written only after all four have completed, and
\* a run in which a stage failed has written nothing to the final dataset.
C7_FinalWrittenLast ==
    /\ IsPrefix(stages, FINAL_STAGES)
    /\ "rule_recommendations.csv" \in Range(written)
          => stages = FINAL_STAGES /\ pc = "done" /\ error = NoError
    /\ pc = "failed"
          => /\ error # NoError
             /\ "rule_recommendations.csv" \notin Range(written)
    /\ pc = "done" => "rule_recommendations.csv" \in Range(written)

\* a run that failed in risk scoring, after two stages, and wrote no final dataset
C7_Witness ==
    /\ pc = "failed"
    /\ stages = <<"anomaly detection", "explanation">>
    /\ error.type = "KeyError"
    /\ ~rule_recommendations_csv.exists

Files == <<features_csv, anomaly_results_csv, anomaly_explanations_csv,
           rule_recommendations_csv>>

\* C8: a second run of run_engine on the unchanged feature dataset and model
\* ends as the first did and leaves rule_recommendations.csv and every
\* intermediate dataset equal to what the first run wrote.
C8_RerunIdentical ==
    (first_run.ended /\ pc \in {"done", "failed"})
        => /\ Files = first_run.files
           /\ pc = first_run.pc
           /\ error = first_run.error

\* a second run completed, after a first run that wrote the final dataset
C8_Witness ==
    /\ first_run.ended
    /\ first_run.files[4].exists
    /\ runs >= 2
    /\ pc = "done"
    /\ Len(rule_recommendations_csv.rows) = 2

WRITE_ORDER == <<"anomaly_results.csv", "anomaly_explanations.csv", "rule_recommendations.csv">>

\* C9: data flows strictly forward and no stage mutates a prior stage's output
\* in place: generate_explanations, compute_risk_score and
\* assign_severity_and_action leave the record collection they were handed
\* unchanged, and no later stage rewrites features.csv, anomaly_results.csv or
\* anomaly_explanations.csv.
C9_NoInPlaceMutation ==
    /\ (pc \in {"risk", "severity", "save", "done"} /\ handed.ref # 0)
          => heap[handed.ref] = handed.val
    /\ IsPrefix(written, WRITE_ORDER)

\* the weighted-cap score as the formula states it, in thousandths, no clamp
WeightedRaw(row) == Min(500 * row[1], 30000) + 400 * row[2] + 30 * row[3]

\* request_count >= 0, error_rate in [0,1], burst_score in [0,1]
ValidRiskRow(row) ==
    /\ row[1] >= 0
    /\ row[2] >= 0 /\ row[2] <= 100
    /\ row[3] >= 0 /\ row[3] <= 1000

\* C10: for a record with request_count >= 0, error_rate in [0,1] and
\* burst_score in [0,1], calculate_risk returns an integer in [0,100] that is
\* min(request_count*0.5, 30) + error_rate*40 + burst_score*30 truncated to an
\* integer; the clamp at 100 is the only clamp: whatever the record, a sum of
\* at most 100 is returned truncated and a larger sum is returned as 100.
C10_WeightedCapRange ==
    (fn.done /\ fn.op = "calculate_risk") =>
        /\ ValidRiskRow(fn.row) =>
              /\ fn.out \in 0..100
              /\ 1000 * fn.out <= WeightedRaw(fn.row)
              /\ WeightedRaw(fn.row) < 1000 * (fn.out + 1)
        /\ WeightedRaw(fn.row) <= 100000 => fn.out = Truncate(WeightedRaw(fn.row), 1000)
        /\ WeightedRaw(fn.row) > 100000 => fn.out = 100

\* a record at the top of every range scores exactly 100
C10_Witness ==
    /\ fn.done /\ fn.op = "calculate_risk"
    /\ fn.row = <<200, 100, 1000>>
    /\ fn.out = 100

\* the preconditions of the composite score's range: non-negative request counts
\* and response times, error rates in [0, 1], positive batch maxima
ValidBatch(d) ==
    /\ \A i \in 1..Len(d.rows) :
          /\ d.rows[i]["req_per_min"] >= 0
          /\ d.rows[i]["avg_resp_time"] >= 0
          /\ d.rows[i]["error_rate"] \in 0..100
    /\ MaxSeq(Column(d, "req_per_min")) > 0
    /\ MaxSeq(Column(d, "avg_resp_time")) > 0

CompositeReturned == fn.op = "composite" /\ fn.done

\* C11: for a batch of non-negative request counts and response times, error
\* rates in [0, 1] and positive batch maxima, the composite risk score of
\* every record is a finite number in [0, 10], with no clamp applied
C11_CompositeRange ==
    (CompositeReturned /\ ValidBatch(fn.frame)) =>
        \A i \in 1..Len(fn.composite.rows) :
            /\ IsNum(fn.composite.rows[i]["risk_score"])
            /\ fn.composite.rows[i]["risk_score"].v \in 0..1000

\* a valid batch whose records score both ends of the range: 10 and 0
C11_Witness ==
    /\ CompositeReturned /\ ValidBatch(fn.frame)
    /\ \E i, j \in 1..Len(fn.composite.rows) :
          /\ fn.composite.rows[i]["risk_score"] = Num(1000)
          /\ fn.composite.rows[j]["risk_score"] = Num(0)

PoliciesReturned == fn.op = "policies" /\ fn.done

\* a batch of one record with no errors and fewer than 20 requests per minute
QuietSingleton(d) ==
    /\ Len(d.rows) = 1
    /\ d.rows[1]["error_rate"] = 0
    /\ d.rows[1]["req_per_min"] < 20

\* C12: the two policies are not severity-equivalent: for a batch of one
\* error-free record with fewer than 20 requests per minute the composite
\* policy assigns Medium and the weighted-cap policy assigns Low
C12_PoliciesDisagree ==
    (PoliciesReturned /\ QuietSingleton(fn.frame)) =>
        /\ fn.composite.rows[1]["severity"] = "Medium"
        /\ fn.weighted.rows[1]["severity"] = "Low"
        /\ fn.composite.rows[1]["severity"] # fn.weighted.rows[1]["severity"]

\* both policies have scored such a batch and their tiers differ
C12_Witness ==
    /\ PoliciesReturned /\ QuietSingleton(fn.frame)
    /\ fn.composite.rows[1]["risk_score"] = Num(600)
    /\ fn.weighted.rows[1]["risk_score"] = PyInt(35)
    /\ fn.composite.rows[1]["severity"] # fn.weighted.rows[1]["severity"]

\* the composite policy has scored the two-vector window of the scenario
ScenarioScored ==
    /\ CompositeReturned
    /\ fn.frame.cols = SCENARIO_COLUMNS
    /\ fn.frame \in ScenarioBatches

BlockedAsHigh(row) ==
    /\ row["severity"] = "High"
    /\ row["recommended_action"] = "Block IP and alert SOC immediately"

\* C13 as stated: whatever the two response times are, the Anomaly vector of
\* the scenario gets severity High and the action "Block IP and alert SOC immediately"
C13_ScenarioAlwaysHigh ==
    ScenarioScored => BlockedAsHigh(fn.composite.rows[2])

\* C13, amended: when the Anomaly vector's response time is positive and at
\* least one fifth of the Normal vector's, it gets severity High and the
\* action "Block IP and alert SOC immediately"
C13_ScenarioHigh ==
    (/\ ScenarioScored
     /\ fn.frame.rows[2]["avg_resp_time"] > 0
     /\ 5 * fn.frame.rows[2]["avg_resp_time"] >= fn.frame.rows[1]["avg_resp_time"])
        => BlockedAsHigh(fn.composite.rows[2])

\* the Anomaly vector at exactly one fifth of the Normal vector's response
\* time scores 7.0 and is blocked
C13_Witness ==
    /\ ScenarioScored
    /\ fn.frame.rows[1]["avg_resp_time"] = 600
    /\ fn.frame.rows[2]["avg_resp_time"] = 120
    /\ fn.composite.rows[2]["risk_score"] = Num(700)
    /\ BlockedAsHigh(fn.composite.rows[2])

MatcherReturned == fn.op = "recommend_rule" /\ fn.done

\* the explanation names the request rate alone
RateReasonOnly(row) ==
    row["explanation"] = RATE_PREFIX \o FloatText(row["req_rate_deviation"]) \o TIMES_SIGN

\* C14: whatever explanation the explainer emits for an Anomaly record, the
\* keyword matcher never answers "Rate limit IP for 5 minutes"; a record whose
\* only deviation is the request rate gets "Monitor traffic closely"
C14_NeverRateLimit ==
    MatcherReturned =>
        \A i \in 1..Len(fn.weighted.rows) :
            fn.weighted.rows[i]["anomaly_label"] = "Anomaly" =>
                /\ ~Contains(lower(fn.weighted.rows[i]["explanation"]), HIGH_REQUEST_RATE)
                /\ fn.weighted.rows[i]["recommended_action"] # "Rate limit IP for 5 minutes"
                /\ RateReasonOnly(fn.weighted.rows[i]) =>
                       fn.weighted.rows[i]["recommended_action"] = "Monitor traffic closely"

\* an Anomaly record explained by its request rate alone, 12 times the
\* baseline, is only monitored
C14_Witness ==
    /\ MatcherReturned
    /\ fn.weighted.rows[2]["anomaly_label"] = "Anomaly"
    /\ fn.weighted.rows[2]["req_rate_deviation"] = Num(1200)
    /\ RateReasonOnly(fn.weighted.rows[2])
    /\ fn.weighted.rows[2]["recommended_action"] = "Monitor traffic closely"

\* the three decision columns of the file are what the composite policy of
\* ml_engine computes from the file's own feature columns
CompositeColumns(file) ==
    LET d == ReadCsv(file)
    IN  /\ MissingRiskKey(d) = <<>>
        /\ d = assign_severity_and_action(compute_risk_score(d))

\* the three decision columns of the file are what the weighted-cap policy
\* and the keyword matcher of rule_engine compute from the file's other columns
WeightedColumns(file) ==
    LET d == ReadCsv(file)
    IN  /\ MissingRuleKey(d) = <<>>
        /\ d = apply_recommend_rule(apply_assign_severity(apply_calculate_risk(d)))

\* C15: whenever rule_recommendations.csv exists, its risk_score, severity and
\* recommended_action columns are all those of one policy, the policy of the
\* program that wrote the file last; columns of the two policies never mix
C15_OnePolicy ==
    rule_recommendations_csv.exists =>
        \/ /\ last_writer = "ml_engine"
           /\ CompositeColumns(rule_recommendations_csv)
           /\ \A i \in 1..Len(rule_recommendations_csv.rows) :
                 rule_recommendations_csv.rows[i]["risk_score"].k # "int"
        \/ /\ last_writer = "rule_engine"
           /\ WeightedColumns(rule_recommendations_csv)
           /\ \A i \in 1..Len(rule_recommendations_csv.rows) :
                 rule_recommendations_csv.rows[i]["risk_score"].k = "int"

\* run_engine completed, the script ran over its explanations, and a second
\* run of run_engine completed: the file that held the weighted-cap columns
\* when the second run started now holds the composite ones
C15_Witness ==
    /\ runs = 2 /\ pc = "done"
    /\ first_run.pc = "done"
    /\ first_run.files[4].exists
    /\ WeightedColumns(first_run.files[4])
    /\ last_writer = "ml_engine"
    /\ CompositeColumns(rule_recommendations_csv)
    /\ \E i \in 1..Len(rule_recommendations_csv.rows) :
          rule_recommendations_csv.rows[i]["severity"] # first_run.files[4].rows[i]["severity"]

====
